---- MODULE Spec2Model ----
(***************************************************************************)
(* Model of agent/play_with_llm.py: the turn loop of main(), the pexpect   *)
(* child-process handle it drives (expect / sendline / before / after /    *)
(* buffer), the rolling history list, the oracle (mock generator or        *)
(* call_llm) and the log sinks.                                            *)
(*                                                                         *)
(* Text is modelled as a sequence of tokens.  A token of child output is a *)
(* record [o |-> n, c |-> s]: c is the text ("txt" some prose, "\n" a line *)
(* break, "Score:" the boundary marker, "num" the rest of the status line  *)
(* that follows the marker) and o is the turn whose command the child was  *)
(* answering when it printed the token (0 for the startup banner).  o is   *)
(* not visible to the program; the history list stores only the c's.       *)
(***************************************************************************)
EXTENDS Integers, Sequences, FiniteSets, TLC

VARIABLES
    use_mock,        \* main:168
    simple_text,     \* main:192
    simple_log,      \* main:198
    max_turns,       \* main:226
    pc,              \* position of main(): banner, top, oracle, send, wait, cleanup, done, crashed
    turn,            \* loop variable of main:233
    history,         \* main:225, list of chunks (each a sequence of token texts)
    bannerWin,       \* history[-4:] of main:244
    recent_context,  \* history[-6:] of main:249 / main:297
    mock_i,          \* cursor i of mock_llm_policy
    response,        \* raw oracle response, a sequence of lines
    cmd_line,        \* main:281
    before,          \* game.before
    after,           \* game.after: [k |-> "None" | "str" | "TIMEOUT" | "EOF", v |-> tokens]
    buffer,          \* output of the child not yet consumed by expect (game.buffer and the pipe)
    childAlive,      \* the child has not closed its output
    pending,         \* turn of the command the child has received and not yet answered, 0 if none
    gameOpen,        \* the spawn object has not been closed
    transcript_open, commands_open, jsonl_open, text_open,   \* the four sinks
    records,         \* what was written to agent_run_log.jsonl / agent_run_log.txt, in order
    events,          \* ghost: the events of the run, in order, as [t |-> turn, e |-> name]
    endReason,       \* ghost: which exit of the loop was taken
    appended,        \* ghost: every chunk ever appended to history, in order
    histOp, win, winN, winFrom,  \* last history operation and the last window taken
    oracleOut,       \* ghost: the raw responses the oracle returned, in order, as [t |-> turn, raw |-> lines]
    sent,            \* the lines written to the child by sendline, in order, as [t |-> turn, cmd |-> line]
    text,            \* input of the extraction functions: a sequence of lines
    given,           \* what the input text was made from
    parsed,          \* result of the last extraction
    location, score, turns,   \* main:244
    game_output      \* out of main:334, the output received for the command, a sequence of lines

vars == << use_mock, simple_text, simple_log, max_turns, pc, turn, history, bannerWin,
           recent_context, mock_i, response, cmd_line, before, after, buffer,
           childAlive, pending, gameOpen, transcript_open, commands_open,
           jsonl_open, text_open, records, events, endReason, appended,
           histOp, win, winN, winFrom, oracleOut, sent, text, given, parsed,
           location, score, turns, game_output >>

\* ---------------------------------------------------------------- bounds
MaxTurns == 3          \* MAX_TURNS of the run
MaxAppends == 14       \* appends explored by the history-buffer specification
MaxCalls == 10         \* calls explored by the mock-oracle specification
MaxBannerLines == 3    \* lines of the texts given to parse_banner
MaxDescLines == 2      \* description lines of the texts given to parse_game_state
MaxItemLines == 2      \* item lines of the texts given to parse_game_state
MaxInline == 2         \* items written on the introduction line

\* ------------------------------------------------------ program constants
HistoryBound == 12
BannerWindow == 4
ContextWindow == 6

Min(a, b) == IF a < b THEN a ELSE b

\* ------------------------------------------------------------------ text
Marker == "Score:"
IsSpace(c) == c = "\n" \/ c = " "

Tok(o, c) == [o |-> o, c |-> c]

RECURSIVE LStrip(_)
LStrip(s) == IF s # <<>> /\ IsSpace(Head(s)) THEN LStrip(Tail(s)) ELSE s

RECURSIVE RStrip(_)
RStrip(s) == IF s # <<>> /\ IsSpace(s[Len(s)])
             THEN RStrip(SubSeq(s, 1, Len(s) - 1)) ELSE s

\* str.strip() on a sequence of token texts
Strip(s) == RStrip(LStrip(s))

\* the text of a token sequence (what the program sees of it)
Content(toks) == [i \in 1..Len(toks) |-> toks[i].c]

\* str.strip() on tokens that still carry their origin
RECURSIVE LStripTok(_)
LStripTok(s) == IF s # <<>> /\ IsSpace(Head(s).c) THEN LStripTok(Tail(s)) ELSE s

RECURSIVE RStripTok(_)
RStripTok(s) == IF s # <<>> /\ IsSpace(s[Len(s)].c)
                THEN RStripTok(SubSeq(s, 1, Len(s) - 1)) ELSE s

StripTok(s) == RStripTok(LStripTok(s))

\* index of the first marker token of a buffer, 0 if there is none
RECURSIVE FirstMarkerFrom(_, _)
FirstMarkerFrom(buf, i) ==
    IF i > Len(buf) THEN 0
    ELSE IF buf[i].c = Marker THEN i ELSE FirstMarkerFrom(buf, i + 1)

FirstMarker(buf) == FirstMarkerFrom(buf, 1)


\* -------------------------------------------------------- history buffer
\* variant: the slice keeps the head of the list instead of its tail
HistoryAppend_KeepHead(h, chunk) ==
    LET h2 == Append(h, chunk)
    IN  IF Len(h2) > HistoryBound
        THEN SubSeq(h2, 1, HistoryBound)
        ELSE h2

\* main:239-242  history.append(recent); if len(history) > 12: history = history[-12:]
HistoryAppend(h, chunk) ==
    LET h2 == Append(h, chunk)
    IN  IF Len(h2) > HistoryBound
        THEN SubSeq(h2, Len(h2) - HistoryBound + 1, Len(h2))
        ELSE h2

\* variant: the slice h[:n]
Window_Head(h, n) == SubSeq(h, 1, Min(n, Len(h)))

\* main:244, 249, 297  the slice h[-n:] (for n = 0 Python's h[-0:] is all of h)
Window(h, n) ==
    IF n = 0 \/ n >= Len(h) THEN h
    ELSE SubSeq(h, Len(h) - n + 1, Len(h))

\* ------------------------------------------------------------ the oracle
\* mock_llm_policy:152-158; a line is a sequence of atoms, " " is whitespace
MockResponses == <<
    << <<"look">>,         <<"I want to see the surroundings.">> >>,
    << <<"north">>,        <<"Move toward the house to explore.">> >>,
    << <<"take lamp">>,    <<"Pick up the lamp to illuminate dark rooms.">> >>,
    << <<"open mailbox">>, <<"Maybe there's a letter inside.">> >>,
    << <<"south">>,        <<"Return toward the southern path.">> >> >>

\* variant: the index is clamped to the last response instead of wrapping
MockResponse_NoWrap(i) == MockResponses[Min(i, Len(MockResponses) - 1) + 1]

\* mock_llm_policy:161  responses[i % len(responses)]
MockResponse(i) == MockResponses[(i % Len(MockResponses)) + 1]

\* what call_llm can hand back: a string (sequence of lines) or None
LLMReturns == {
    [k |-> "str",  v |-> << <<"look">> >>],
    [k |-> "str",  v |-> << <<>>, <<" ", "open door", " ">>, <<"why not">> >>],
    [k |-> "str",  v |-> << <<" ">>, <<>> >>],
    [k |-> "str",  v |-> <<>>],
    [k |-> "None", v |-> <<>>] }

\* main:268-274  None becomes ''
Normalize(r) == IF r.k = "None" THEN <<>> ELSE r.v

\* variant: the first non-blank line is taken as it is, blanks included
RECURSIVE FirstCommand_NoStrip(_)
FirstCommand_NoStrip(lines) ==
    IF lines = <<>> THEN <<>>
    ELSE IF Strip(Head(lines)) # <<>> THEN Head(lines)
    ELSE FirstCommand_NoStrip(Tail(lines))

\* main:281-286  first line that is non-empty after strip(), <<>> if none
RECURSIVE FirstCommand(_)
FirstCommand(lines) ==
    IF lines = <<>> THEN <<>>
    ELSE IF Strip(Head(lines)) # <<>> THEN Strip(Head(lines))
    ELSE FirstCommand(Tail(lines))

\* ------------------------------------------------------------- the child
\* what the child prints for the command of turn t (t = 0: at startup)
ChildOutputs(t) == {
    << Tok(t, "txt"), Tok(t, "\n"), Tok(t, Marker), Tok(t, "num"), Tok(t, "\n") >>,
    << Tok(t, "\n"), Tok(t, "txt"), Tok(t, "\n"), Tok(t, Marker) >>,
    << Tok(t, "txt"), Tok(t, "\n") >> }

\* -------------------------------------------------------- pexpect handle
NoneAfter == [k |-> "None", v |-> <<>>]

\* spawn.expect when the pattern is found: before is the text in front of the
\* match, after the matched text, and the rest stays in the buffer
MatchBefore(buf) == SubSeq(buf, 1, FirstMarker(buf) - 1)
MatchAfter(buf)  == [k |-> "str", v |-> << buf[FirstMarker(buf)] >>]
MatchRest(buf)   == SubSeq(buf, FirstMarker(buf) + 1, Len(buf))

\* spawn.expect on end of file / on timeout: after is the exception class
EOFAfter     == [k |-> "EOF", v |-> <<>>]
TimeoutAfter == [k |-> "TIMEOUT", v |-> <<>>]

\* main:235, main:334  (game.before or '') + (game.after or ''): a str plus
\* an exception class raises TypeError
ConcatRaises(a) == a.k \in {"EOF", "TIMEOUT"}
Concat(b, a) == b \o a.v

Ev(t, e) == [t |-> t, e |-> e]

\* nothing extracted yet
NoGiven == [kind |-> "none"]
NoParsed == [op |-> "none"]

\* ------------------------------------------------------------------ Init
Init ==
    /\ use_mock \in BOOLEAN
    /\ simple_text \in BOOLEAN
    /\ simple_log \in BOOLEAN
    /\ pc = "banner"
    /\ turn = 0
    /\ history = <<>>
    /\ bannerWin = <<>>
    /\ recent_context = <<>>
    /\ mock_i = 0
    /\ response = <<>>
    /\ cmd_line = <<>>
    /\ before = <<>>
    /\ after = NoneAfter
    /\ buffer \in ChildOutputs(0)
    /\ childAlive = TRUE
    /\ pending = 0
    /\ gameOpen = TRUE
    /\ transcript_open = TRUE
    /\ commands_open = TRUE
    /\ jsonl_open = TRUE
    /\ text_open = simple_text
    /\ records = <<>>
    /\ events = <<>>
    /\ endReason = "none"
    /\ appended = <<>>
    /\ histOp = "none"
    /\ win = <<>>
    /\ winN = 0
    /\ winFrom = <<>>
    /\ max_turns = MaxTurns
    /\ oracleOut = <<>>
    /\ sent = <<>>
    /\ location = <<>>
    /\ score = [set |-> FALSE, v |-> 0]
    /\ turns = [set |-> FALSE, v |-> 0]
    /\ game_output = <<>>
    /\ text = <<>>
    /\ given = NoGiven
    /\ parsed = NoParsed

config == << use_mock, simple_text, simple_log, max_turns >>
recvars == << location, score, turns, game_output >>
extractvars == << text, given, parsed, recvars >>
histvars == << histOp, win, winN, winFrom >>
sinks == << gameOpen, transcript_open, commands_open, jsonl_open, text_open >>
oraclevars == << mock_i, response, cmd_line >>
histstate == << history, bannerWin, recent_context, appended >>

\* ------------------------------------------------------------- the child
\* the child answers the command it was sent
ChildRespond ==
    /\ pc = "wait"
    /\ childAlive
    /\ pending > 0
    /\ \E out \in ChildOutputs(pending) : buffer' = buffer \o out
    /\ pending' = 0
    /\ UNCHANGED << config, extractvars, oracleOut, sent, pc, turn, histstate, oraclevars, before, after,
                    childAlive, sinks, records, events, endReason, histvars >>

\* the child exits and its output reaches end of file
ChildClose ==
    /\ pc \in {"banner", "wait"}
    /\ childAlive
    /\ childAlive' = FALSE
    /\ UNCHANGED << config, extractvars, oracleOut, sent, pc, turn, histstate, oraclevars, before, after,
                    buffer, pending, sinks, records, events, endReason, histvars >>

\* ---------------------------------------------------------------- startup
\* main:201-203, 208-210  the banner marker is found
StartupMatch ==
    /\ pc = "banner"
    /\ FirstMarker(buffer) > 0
    /\ before' = MatchBefore(buffer)
    /\ after' = MatchAfter(buffer)
    /\ buffer' = MatchRest(buffer)
    /\ events' = Append(events, Ev(0, "banner"))
    /\ IF 1 <= max_turns
       THEN pc' = "top" /\ turn' = 1 /\ endReason' = endReason
       ELSE pc' = "cleanup" /\ turn' = turn /\ endReason' = "Normal"
    /\ UNCHANGED << config, extractvars, oracleOut, sent, histstate, oraclevars, childAlive, pending, sinks,
                    records, histvars >>

\* main:204-210  expect raises (TIMEOUT, or EOF when the child is gone) and
\* read_nonblocking either returns some text or raises itself, uncaught
StartupFail ==
    /\ pc = "banner"
    /\ FirstMarker(buffer) = 0
    /\ before' = buffer
    /\ after' = IF childAlive THEN TimeoutAfter ELSE EOFAfter
    /\ buffer' = IF childAlive THEN buffer ELSE <<>>
    /\ events' = Append(events, Ev(0, IF childAlive THEN "banner_timeout" ELSE "banner_eof"))
    /\ \E raised \in (IF childAlive THEN BOOLEAN ELSE {TRUE}) :
          IF raised
          THEN pc' = "crashed" /\ turn' = turn /\ endReason' = "Uncaught"
          ELSE IF 1 <= max_turns
               THEN pc' = "top" /\ turn' = 1 /\ endReason' = endReason
               ELSE pc' = "cleanup" /\ turn' = turn /\ endReason' = "Normal"
    /\ UNCHANGED << config, extractvars, oracleOut, sent, histstate, oraclevars, childAlive, pending, sinks,
                    records, histvars >>

\* -------------------------------------------------------------- the loop
\* variant: range(1, max_turns), one iteration short
LoopAdvance_OneShort ==
    IF turn + 1 < max_turns
    THEN pc' = "top" /\ turn' = turn + 1 /\ endReason' = endReason
    ELSE pc' = "cleanup" /\ turn' = turn /\ endReason' = "Normal"

\* variant: the counter steps by two
LoopAdvance_Skip ==
    IF turn < max_turns
    THEN pc' = "top" /\ turn' = turn + 2 /\ endReason' = endReason
    ELSE pc' = "cleanup" /\ turn' = turn /\ endReason' = "Normal"

\* main:233  for turn in range(1, max_turns + 1): the step to the next
\* iteration, or out of the loop once the range is exhausted
LoopAdvance ==
    IF turn < max_turns
    THEN pc' = "top" /\ turn' = turn + 1 /\ endReason' = endReason
    ELSE pc' = "cleanup" /\ turn' = turn /\ endReason' = "Normal"

\* a break out of the loop; the code then falls through to main:414
Break(reason) ==
    /\ pc' = "cleanup"
    /\ turn' = turn
    /\ endReason' = reason

\* main:235  after a TIMEOUT or EOF game.after is the exception class and
\* the concatenation raises TypeError, which nothing catches
TurnTopRaise ==
    /\ pc = "top"
    /\ ConcatRaises(after)
    /\ pc' = "crashed"
    /\ endReason' = "Uncaught"
    /\ events' = Append(events, Ev(turn, "top_raise"))
    /\ UNCHANGED << config, extractvars, oracleOut, sent, turn, histstate, oraclevars, before, after, buffer,
                    childAlive, pending, sinks, records, histvars >>

\* main:235-256  append the latest output to the history, take the windows
TurnTop ==
    /\ pc = "top"
    /\ ~ConcatRaises(after)
    /\ LET recent == Strip(Content(Concat(before, after)))
       IN  /\ history' = IF recent # <<>> THEN HistoryAppend(history, recent) ELSE history
           /\ appended' = IF recent # <<>> THEN Append(appended, recent) ELSE appended
    /\ bannerWin' = Window(history', BannerWindow)
    /\ recent_context' = Window(history', ContextWindow)
    /\ pc' = "oracle"
    /\ events' = Append(events, Ev(turn, "top"))
    /\ UNCHANGED << config, extractvars, oracleOut, sent, turn, oraclevars, before, after, buffer, childAlive,
                    pending, sinks, records, endReason, histvars >>

\* what the oracle can return on this call: main:258-262
OracleReturns ==
    IF use_mock THEN {[k |-> "str", v |-> MockResponse(mock_i)]} ELSE LLMReturns

\* variant: the failure is skipped over and the loop goes on
OracleRaise_Continue ==
    /\ pc = "oracle"
    /\ ~use_mock
    /\ events' = Append(events, Ev(turn, "oracle_fail"))
    /\ LoopAdvance
    /\ UNCHANGED << config, extractvars, oracleOut, sent, histstate, oraclevars, before, after, buffer,
                    childAlive, pending, sinks, records, histvars >>

\* main:261-265  call_llm raises: break
OracleRaise ==
    /\ pc = "oracle"
    /\ ~use_mock
    /\ events' = Append(events, Ev(turn, "oracle_fail"))
    /\ Break("DecisionSourceFailure")
    /\ UNCHANGED << config, extractvars, oracleOut, sent, histstate, oraclevars, before, after, buffer,
                    childAlive, pending, sinks, records, histvars >>

\* main:258-278  the response is None or '': break
OracleEmpty ==
    /\ pc = "oracle"
    /\ \E r \in OracleReturns :
          /\ Normalize(r) = <<>>
          /\ response' = Normalize(r)
    /\ mock_i' = IF use_mock THEN mock_i + 1 ELSE mock_i
    /\ cmd_line' = cmd_line
    /\ events' = Append(events, Ev(turn, "oracle"))
    /\ Break("DecisionSourceFailure")
    /\ oracleOut' = Append(oracleOut, [t |-> turn, raw |-> response'])
    /\ UNCHANGED << config, extractvars, sent, histstate, before, after, buffer, childAlive,
                    pending, sinks, records, histvars >>

\* variant: the turn is skipped and the loop goes on
OracleNoCommand_Continue ==
    /\ pc = "oracle"
    /\ \E r \in OracleReturns :
          /\ Normalize(r) # <<>>
          /\ FirstCommand(Normalize(r)) = <<>>
          /\ response' = Normalize(r)
    /\ mock_i' = IF use_mock THEN mock_i + 1 ELSE mock_i
    /\ cmd_line' = <<>>
    /\ events' = Append(events, Ev(turn, "oracle"))
    /\ LoopAdvance
    /\ oracleOut' = Append(oracleOut, [t |-> turn, raw |-> response'])
    /\ UNCHANGED << config, extractvars, sent, histstate, before, after, buffer, childAlive,
                    pending, sinks, records, histvars >>

\* main:258-290  the response has no non-empty line: break
OracleNoCommand ==
    /\ pc = "oracle"
    /\ \E r \in OracleReturns :
          /\ Normalize(r) # <<>>
          /\ FirstCommand(Normalize(r)) = <<>>
          /\ response' = Normalize(r)
    /\ mock_i' = IF use_mock THEN mock_i + 1 ELSE mock_i
    /\ cmd_line' = <<>>
    /\ events' = Append(events, Ev(turn, "oracle"))
    /\ Break("DecisionSourceFailure")
    /\ oracleOut' = Append(oracleOut, [t |-> turn, raw |-> response'])
    /\ UNCHANGED << config, extractvars, sent, histstate, before, after, buffer, childAlive,
                    pending, sinks, records, histvars >>

\* main:301-315  the pre-send record
PreRecord(t, cmd) ==
    [turn |-> t, phase |-> "before_send", command |-> cmd, output |-> <<>>]

\* main:258-321  a command is extracted, written to the commands file, and
\* the pre-send record is written unless SIMPLE_TEXT; a failing write is
\* swallowed (main:320)
OracleCommand ==
    /\ pc = "oracle"
    /\ \E r \in OracleReturns :
          /\ FirstCommand(Normalize(r)) # <<>>
          /\ response' = Normalize(r)
          /\ cmd_line' = FirstCommand(Normalize(r))
    /\ mock_i' = IF use_mock THEN mock_i + 1 ELSE mock_i
    /\ \E written \in (IF simple_text THEN {FALSE} ELSE BOOLEAN) :
          /\ records' = IF written
                        THEN Append(records, PreRecord(turn, cmd_line'))
                        ELSE records
          /\ events' = events \o << Ev(turn, "oracle") >>
                              \o (IF written THEN << Ev(turn, "pre") >> ELSE <<>>)
                              \o (IF ~simple_text /\ ~written
                                  THEN << Ev(turn, "pre_write_fail") >> ELSE <<>>)
    /\ pc' = "send"
    /\ oracleOut' = Append(oracleOut, [t |-> turn, raw |-> response'])
    /\ UNCHANGED << config, extractvars, sent, turn, histstate, before, after, buffer, childAlive,
                    pending, sinks, endReason, histvars >>

\* variant: the loop goes on to the next turn without waiting for the output
SendOk_NoWait ==
    /\ pc = "send"
    /\ pending' = turn
    /\ events' = Append(events, Ev(turn, "send"))
    /\ LoopAdvance
    /\ sent' = Append(sent, [t |-> turn, cmd |-> cmd_line])
    /\ UNCHANGED << config, extractvars, oracleOut, histstate, oraclevars, before, after, buffer,
                    childAlive, sinks, records, histvars >>

\* main:323-325  sendline succeeds
SendOk ==
    /\ pc = "send"
    /\ pending' = turn
    /\ events' = Append(events, Ev(turn, "send"))
    /\ pc' = "wait"
    /\ sent' = Append(sent, [t |-> turn, cmd |-> cmd_line])
    /\ UNCHANGED << config, extractvars, oracleOut, turn, histstate, oraclevars, before, after, buffer,
                    childAlive, sinks, records, endReason, histvars >>

\* variant: the failure is swallowed and the loop waits for output
SendFail_Ignore ==
    /\ pc = "send"
    /\ events' = Append(events, Ev(turn, "send_fail"))
    /\ pc' = "wait"
    /\ UNCHANGED << config, extractvars, oracleOut, sent, turn, histstate, oraclevars,
                    before, after, buffer, childAlive, pending, sinks, records,
                    endReason, histvars >>

\* main:326-329  sendline raises: break
SendFail ==
    /\ pc = "send"
    /\ events' = Append(events, Ev(turn, "send_fail"))
    /\ Break("TransportError")
    /\ UNCHANGED << config, extractvars, oracleOut, sent, histstate, oraclevars, before, after, buffer,
                    childAlive, pending, sinks, records, histvars >>

\* main:347-355 / 367-372 / 383-395  the record written after the command,
\* by logging mode; the output keeps the origin of its tokens
PostRecord(t, cmd, out) ==
    IF simple_text
    THEN [turn |-> t, phase |-> "text", command |-> cmd, output |-> StripTok(out)]
    ELSE IF simple_log
    THEN [turn |-> t, phase |-> "compact", command |-> cmd, output |-> out]
    ELSE [turn |-> t, phase |-> "after_recv", command |-> cmd, output |-> out]

\* main:331-408  the marker is found: out = before + after, the record of
\* the mode is written (a failing write is swallowed), next iteration
ExpectMatch ==
    /\ pc = "wait"
    /\ FirstMarker(buffer) > 0
    /\ before' = MatchBefore(buffer)
    /\ after' = MatchAfter(buffer)
    /\ buffer' = MatchRest(buffer)
    /\ \E written \in BOOLEAN :
          /\ records' = IF written
                        THEN Append(records, PostRecord(turn, cmd_line, Concat(before', after')))
                        ELSE records
          /\ events' = events \o << Ev(turn, "matched") >>
                              \o (IF written THEN << Ev(turn, "post") >>
                                             ELSE << Ev(turn, "post_write_fail") >>)
    /\ LoopAdvance
    /\ UNCHANGED << config, extractvars, oracleOut, sent, histstate, oraclevars, childAlive, pending, sinks,
                    histvars >>

\* main:333-334  end of file: expect returns with game.after = EOF and the
\* concatenation of main:334 raises TypeError, which the except clause of
\* main:409 does not catch
ExpectEOF ==
    /\ pc = "wait"
    /\ FirstMarker(buffer) = 0
    /\ ~childAlive
    /\ before' = buffer
    /\ after' = EOFAfter
    /\ buffer' = <<>>
    /\ events' = Append(events, Ev(turn, "eof"))
    /\ pc' = "crashed"
    /\ endReason' = "Uncaught"
    /\ UNCHANGED << config, extractvars, oracleOut, sent, turn, histstate, oraclevars, childAlive, pending,
                    sinks, records, histvars >>

\* main:333, 409-412  timeout: game.before is what was buffered, game.after
\* the TIMEOUT class, the buffer is kept; next iteration
ExpectTimeout ==
    /\ pc = "wait"
    /\ FirstMarker(buffer) = 0
    /\ childAlive
    /\ before' = buffer
    /\ after' = TimeoutAfter
    /\ events' = Append(events, Ev(turn, "timeout"))
    /\ LoopAdvance
    /\ UNCHANGED << config, extractvars, oracleOut, sent, histstate, oraclevars, buffer, childAlive, pending,
                    sinks, records, histvars >>

\* main:414-427  game.close(), jsonl_f.close(), text_f.close(); the
\* transcript and the commands file are not closed
Cleanup ==
    /\ pc = "cleanup"
    /\ gameOpen' = FALSE
    /\ jsonl_open' = FALSE
    /\ text_open' = FALSE
    /\ UNCHANGED << transcript_open, commands_open >>
    /\ pc' = "done"
    /\ events' = Append(events, Ev(turn, "finished"))
    /\ UNCHANGED << config, extractvars, oracleOut, sent, turn, histstate, oraclevars, before, after, buffer,
                    childAlive, pending, records, endReason, histvars >>

Next ==
    \/ ChildRespond
    \/ ChildClose
    \/ StartupMatch
    \/ StartupFail
    \/ TurnTopRaise
    \/ TurnTop
    \/ OracleRaise
    \/ OracleEmpty
    \/ OracleNoCommand
    \/ OracleCommand
    \/ SendOk
    \/ SendFail
    \/ ExpectMatch
    \/ ExpectEOF
    \/ ExpectTimeout
    \/ Cleanup

Spec == Init /\ [][Next]_vars

\* ------------------------------------------- the history buffer on its own
\* chunks appended by the history-buffer specification
HistChunks == { <<"txt", "\n", "Score:">>, <<"num", "\n", "txt", "\n", "Score:">> }

InitHist ==
    /\ use_mock = TRUE
    /\ simple_text = FALSE
    /\ simple_log = FALSE
    /\ pc = "hist"
    /\ turn = 0
    /\ history = <<>>
    /\ bannerWin = <<>>
    /\ recent_context = <<>>
    /\ mock_i = 0
    /\ response = <<>>
    /\ cmd_line = <<>>
    /\ before = <<>>
    /\ after = NoneAfter
    /\ buffer = <<>>
    /\ childAlive = TRUE
    /\ pending = 0
    /\ gameOpen = TRUE
    /\ transcript_open = TRUE
    /\ commands_open = TRUE
    /\ jsonl_open = TRUE
    /\ text_open = FALSE
    /\ records = <<>>
    /\ events = <<>>
    /\ endReason = "none"
    /\ appended = <<>>
    /\ histOp = "none"
    /\ win = <<>>
    /\ winN = 0
    /\ winFrom = <<>>
    /\ max_turns = MaxTurns
    /\ oracleOut = <<>>
    /\ sent = <<>>
    /\ location = <<>>
    /\ score = [set |-> FALSE, v |-> 0]
    /\ turns = [set |-> FALSE, v |-> 0]
    /\ game_output = <<>>
    /\ text = <<>>
    /\ given = NoGiven
    /\ parsed = NoParsed

\* main:239-242 applied to any chunk
HistAppendStep ==
    /\ pc = "hist"
    /\ Len(appended) < MaxAppends
    /\ \E c \in HistChunks :
          /\ history' = HistoryAppend(history, c)
          /\ appended' = Append(appended, c)
    /\ histOp' = "append"
    /\ UNCHANGED << config, extractvars, oracleOut, sent, pc, turn, bannerWin, recent_context, oraclevars,
                    before, after, buffer, childAlive, pending, sinks, records,
                    events, endReason, win, winN, winFrom >>

\* main:244 and main:249  the two slices the loop takes
HistWindowStep ==
    /\ pc = "hist"
    /\ \E n \in {BannerWindow, ContextWindow} :
          /\ win' = Window(history, n)
          /\ winN' = n
    /\ winFrom' = history
    /\ histOp' = "window"
    /\ UNCHANGED << config, extractvars, oracleOut, sent, pc, turn, histstate, oraclevars, before, after,
                    buffer, childAlive, pending, sinks, records, events,
                    endReason >>

NextHist ==
    \/ HistAppendStep
    \/ HistWindowStep

SpecHist == InitHist /\ [][NextHist]_vars

\* ================================================================ claims
PostPhases == {"after_recv", "compact", "text"}
PostIndexes == { i \in DOMAIN records : records[i].phase \in PostPhases }
NumPost == Cardinality(PostIndexes)
Ended == pc \in {"done", "crashed"}
Happened(t, e) == \E i \in DOMAIN events : events[i] = Ev(t, e)
LastN(s, n) == [i \in 1..n |-> s[Len(s) - n + i]]

\* C1: the output recorded after the command of turn t was printed by the
\* child in answer to that command; read generously, text of the startup
\* banner (origin 0, no command) is let through and only text printed for
\* the command of another turn is excluded.
C1_OutputOfSameTurn ==
    \A i \in PostIndexes :
        \A j \in DOMAIN records[i].output :
            records[i].output[j].o \in {0, records[i].turn}

\* C2: once a boundary wait has ended with end of file, the loop has emitted
\* the record of that turn and the run is finishing with reason StreamClosed.
C2_StreamEndFinishes ==
    \A t \in 1..MaxTurns :
        Happened(t, "eof") =>
            /\ pc \in {"cleanup", "done"}
            /\ endReason = "StreamClosed"

\* C3: once the run is finished the child handle is released and every sink
\* that was opened is closed.
C3_AllReleased ==
    pc = "done" =>
        /\ ~gameOpen
        /\ ~transcript_open
        /\ ~commands_open
        /\ ~jsonl_open
        /\ ~text_open

\* C4: a run that has ended after a timeout on a turn t below the maximum
\* went on to turn t+1 and called the oracle there.
C4_TimeoutContinues ==
    \A t \in 1..(MaxTurns - 1) :
        (Happened(t, "timeout") /\ Ended) =>
            (Happened(t + 1, "oracle") \/ Happened(t + 1, "oracle_fail"))

\* C5: the text buffered when the wait of turn t timed out is, once turn t+1
\* is past its start, a chunk of the history and of the context.
C5_TimedOutTextKept ==
    \A t \in 1..(MaxTurns - 1) :
        (/\ Happened(t, "timeout")
         /\ turn = t + 1
         /\ pc # "top"
         /\ Strip(Content(before)) # <<>>)
        => \E k \in DOMAIN recent_context : recent_context[k] = Strip(Content(before))

\* C6: after a failed oracle call on turn t nothing more happens but the
\* cleanup: no further oracle call, no send, no record, and no record of a
\* turn above t exists.
C6_OracleFailureEndsRun ==
    \A i \in DOMAIN events :
        events[i].e = "oracle_fail" =>
            /\ pc \in {"cleanup", "done"}
            /\ \A j \in DOMAIN events : j > i => events[j].e = "finished"
            /\ ~Happened(events[i].t, "send")
            /\ \A k \in DOMAIN records : records[k].turn <= events[i].t

C6_Witness ==
    /\ pc = "done"
    /\ Happened(2, "oracle_fail")
    /\ NumPost = 1

\* the run met none of: a wait without the marker, a failed send, a failed
\* write of a post-receive record
CleanRun ==
    \A i \in DOMAIN events :
        events[i].e \notin {"banner_timeout", "banner_eof", "timeout", "eof",
                            "send_fail", "post_write_fail"}

C8_Original ==
    \A i \in DOMAIN records :
        IF i = 1 THEN records[i].turn = 1
        ELSE records[i].turn \in {records[i - 1].turn, records[i - 1].turn + 1}

\* C8: the turn numbers of the records, in emission order, lie in
\* 1..MaxTurns and never decrease, and a turn number below an emitted one is
\* missing only when the record writes of that turn failed.
C8_TurnNumbers ==
    /\ \A i \in DOMAIN records : records[i].turn \in 1..MaxTurns
    /\ \A i \in DOMAIN records : i > 1 => records[i - 1].turn <= records[i].turn
    /\ \A i \in DOMAIN records :
          \A u \in 1..(records[i].turn - 1) :
              \/ \E k \in DOMAIN records : records[k].turn = u
              \/ /\ Happened(u, "post_write_fail")
                 /\ simple_text \/ Happened(u, "pre_write_fail")

C8_Witness ==
    /\ pc = "done"
    /\ Len(records) = 2 * MaxTurns
    /\ \A t \in 1..MaxTurns : \E k \in DOMAIN records : records[k].turn = t
    /\ records[Len(records)].turn >= 3

\* C9: the history holds at most HistoryBound chunks and is exactly the most
\* recent min(k, HistoryBound) of the k chunks appended so far, in order.
C9_HistoryFIFO ==
    /\ Len(history) <= HistoryBound
    /\ history = LastN(appended, Min(Len(appended), HistoryBound))

C9_Witness ==
    /\ histOp = "append"
    /\ Len(appended) > HistoryBound
    /\ Len(history) = HistoryBound
    /\ history[1] = history[2]
    /\ history[1] # appended[1]

\* C10: a window of n is exactly the most recent min(n, length) entries of
\* the buffer it was taken from, in order, and taking it leaves the buffer
\* as it was.
C10_WindowMostRecent ==
    histOp = "window" =>
        /\ history = winFrom
        /\ Len(win) = Min(winN, Len(winFrom))
        /\ \A i \in 1..Len(win) : win[i] = winFrom[Len(winFrom) - Len(win) + i]

C10_Witness ==
    /\ histOp = "window"
    /\ winN = BannerWindow
    /\ Len(winFrom) > ContextWindow
    /\ win[1] # winFrom[1]

\* ---------------------------------------------- the mock oracle on its own
\* every variable of the loop at rest, main() at position p
Idle(p) ==
    /\ use_mock = TRUE
    /\ simple_text = FALSE
    /\ simple_log = FALSE
    /\ max_turns = MaxTurns
    /\ pc = p
    /\ turn = 0
    /\ history = <<>>
    /\ bannerWin = <<>>
    /\ recent_context = <<>>
    /\ mock_i = 0
    /\ response = <<>>
    /\ cmd_line = <<>>
    /\ before = <<>>
    /\ after = NoneAfter
    /\ buffer = <<>>
    /\ childAlive = TRUE
    /\ pending = 0
    /\ gameOpen = TRUE
    /\ transcript_open = TRUE
    /\ commands_open = TRUE
    /\ jsonl_open = TRUE
    /\ text_open = FALSE
    /\ records = <<>>
    /\ events = <<>>
    /\ endReason = "none"
    /\ appended = <<>>
    /\ histOp = "none"
    /\ win = <<>>
    /\ winN = 0
    /\ winFrom = <<>>
    /\ oracleOut = <<>>
    /\ sent = <<>>
    /\ location = <<>>
    /\ score = [set |-> FALSE, v |-> 0]
    /\ turns = [set |-> FALSE, v |-> 0]
    /\ game_output = <<>>

InitOracle ==
    /\ Idle("mock")
    /\ text = <<>>
    /\ given = NoGiven
    /\ parsed = NoParsed

\* mock_llm_policy:159-162 and main:259  next(mock_gen), called after the
\* context has changed by some chunk; the generator takes no argument
MockCall ==
    /\ pc = "mock"
    /\ Len(oracleOut) < MaxCalls
    /\ \E c \in HistChunks :
          /\ history' = HistoryAppend(history, c)
          /\ appended' = Append(appended, c)
    /\ recent_context' = Window(history', ContextWindow)
    /\ response' = MockResponse(mock_i)
    /\ mock_i' = mock_i + 1
    /\ oracleOut' = Append(oracleOut, [t |-> Len(oracleOut) + 1, raw |-> response'])
    /\ UNCHANGED << config, extractvars, sent, pc, turn, bannerWin, cmd_line,
                    before, after, buffer, childAlive, pending, sinks, records,
                    events, endReason, histvars >>

NextOracle == MockCall

SpecOracle == InitOracle /\ [][NextOracle]_vars

\* C11: the j-th call of the deterministic oracle (j from 1) returns canned
\* response (j-1) mod k whatever the context, the cursor has advanced by one
\* per call, and each call past the k-th repeats the call k before it.
C11_MockCycles ==
    /\ mock_i = Len(oracleOut)
    /\ \A j \in DOMAIN oracleOut :
          /\ oracleOut[j].raw = MockResponses[((j - 1) % Len(MockResponses)) + 1]
          /\ j > Len(MockResponses) =>
                oracleOut[j].raw = oracleOut[j - Len(MockResponses)].raw

C11_Witness ==
    /\ pc = "mock"
    /\ Len(oracleOut) = 2 * Len(MockResponses)
    /\ recent_context[1] # recent_context[2]
    /\ oracleOut[Len(MockResponses) + 1].raw = MockResponses[1]

\* every line of a raw response is empty or whitespace only
NoNonEmptyLine(raw) ==
    \A l \in DOMAIN raw : \A a \in DOMAIN raw[l] : IsSpace(raw[l][a])

\* C12: a response without a non-empty line on turn t is the last thing of
\* the run before the cleanup: nothing is sent for turn t, no record of turn
\* t or later exists, and no later turn is started.
C12_NoCommandEndsRun ==
    \A i \in DOMAIN oracleOut :
        NoNonEmptyLine(oracleOut[i].raw) =>
            /\ pc \in {"cleanup", "done"}
            /\ i = Len(oracleOut)
            /\ turn = oracleOut[i].t
            /\ events[Len(events)] \in {Ev(turn, "oracle"), Ev(turn, "finished")}
            /\ \A j \in DOMAIN sent : sent[j].t # oracleOut[i].t
            /\ \A k \in DOMAIN records : records[k].turn < oracleOut[i].t

C12_Witness ==
    /\ pc = "done"
    /\ \E i \in DOMAIN oracleOut :
          /\ oracleOut[i].t = 2
          /\ oracleOut[i].raw = << <<" ">>, <<>> >>
    /\ NumPost = 1

\* C13: a failed send on turn t is the last thing of the run before the
\* cleanup: the command is not sent again, no post-receive record of turn t
\* exists and no later turn is started.
C13_SendFailureFatal ==
    \A i \in DOMAIN events :
        events[i].e = "send_fail" =>
            /\ pc \in {"cleanup", "done"}
            /\ turn = events[i].t
            /\ \A j \in DOMAIN events : j > i => events[j].e = "finished"
            /\ \A j \in DOMAIN sent : sent[j].t # events[i].t
            /\ \A k \in PostIndexes : records[k].turn # events[i].t

C13_Witness ==
    /\ pc = "done"
    /\ Happened(2, "send_fail")
    /\ endReason = "TransportError"
    /\ NumPost = 1

\* the loop can take no further step
AtRest == pc \notin {"banner", "top", "oracle", "send", "wait", "cleanup"}

\* C14: a run in which the marker did not reappear after a command, so that
\* the boundary wait ended with a timeout, comes to rest nowhere but in
\* Finished: once the loop can take no further step it has gone through the
\* cleanup.
C14_EndsInFinished ==
    \A t \in 1..MaxTurns :
        (Happened(t, "timeout") /\ AtRest) => pc = "done"

\* ------------------------------------------------------------ parse_banner
\* A line of text is a sequence of atoms: " " is whitespace, "0", "5", "10"
\* are runs of digits, every other atom is a run of non-blank characters.
DigitAtoms == {"0", "5", "10"}

\* int() of a run of digits
IntOf(a) == IF a = "0" THEN 0 ELSE IF a = "5" THEN 5 ELSE 10

\* index of the first atom at or after i that is not whitespace
RECURSIVE SkipSpaces(_, _)
SkipSpaces(s, i) ==
    IF i <= Len(s) /\ IsSpace(s[i]) THEN SkipSpaces(s, i + 1) ELSE i

\* parse_banner:54  the pattern Score:\s*(\d+)\s*Turns:\s*(\d+) matches at p
StatusAt(s, p) ==
    LET q == SkipSpaces(s, p + 1)
        r == SkipSpaces(s, q + 1)
        u == SkipSpaces(s, r + 1)
    IN  /\ p <= Len(s) /\ s[p] = "Score:"
        /\ q <= Len(s) /\ s[q] \in DigitAtoms
        /\ r <= Len(s) /\ s[r] = "Turns:"
        /\ u <= Len(s) /\ s[u] \in DigitAtoms

\* parse_banner:54  re.search: the leftmost match, 0 if there is none
RECURSIVE SearchStatus(_, _)
SearchStatus(s, p) ==
    IF p > Len(s) THEN 0
    ELSE IF StatusAt(s, p) THEN p ELSE SearchStatus(s, p + 1)

\* groups 1 and 2 of the match at p, through int()
StatusScore(s, p) == IntOf(s[SkipSpaces(s, p + 1)])
StatusTurns(s, p) ==
    LET q == SkipSpaces(s, p + 1)
        r == SkipSpaces(s, q + 1)
    IN  IntOf(s[SkipSpaces(s, r + 1)])

Unset == [set |-> FALSE, v |-> 0]
Value(n) == [set |-> TRUE, v |-> n]

\* parse_banner:45-47
BannerStart == [locset |-> FALSE, location |-> <<>>, score |-> Unset, turns |-> Unset]

\* variant: the location is overwritten by every non-blank line
BannerStep_Overwrite(acc, s) ==
    LET p == SearchStatus(s, 1)
    IN  [locset |-> TRUE, location |-> s,
         score |-> IF p > 0 THEN Value(StatusScore(s, p)) ELSE acc.score,
         turns |-> IF p > 0 THEN Value(StatusTurns(s, p)) ELSE acc.turns]

\* variant: score and turns are kept once they are set
BannerStep_KeepFirst(acc, s) ==
    LET p == SearchStatus(s, 1)
        a1 == IF acc.locset THEN acc
              ELSE [acc EXCEPT !.locset = TRUE, !.location = s]
    IN  IF p > 0 /\ ~acc.score.set
        THEN [a1 EXCEPT !.score = Value(StatusScore(s, p)),
                        !.turns = Value(StatusTurns(s, p))]
        ELSE a1

\* parse_banner:52-57  one non-blank stripped line s
BannerStep(acc, s) ==
    LET p == SearchStatus(s, 1)
        a1 == IF acc.locset THEN acc
              ELSE [acc EXCEPT !.locset = TRUE, !.location = s]
    IN  IF p > 0
        THEN [a1 EXCEPT !.score = Value(StatusScore(s, p)),
                        !.turns = Value(StatusTurns(s, p))]
        ELSE a1

\* parse_banner:48-51  the loop over the lines, blank lines skipped
RECURSIVE BannerLoop(_, _, _)
BannerLoop(lines, i, acc) ==
    IF i > Len(lines) THEN acc
    ELSE IF Strip(lines[i]) = <<>> THEN BannerLoop(lines, i + 1, acc)
    ELSE BannerLoop(lines, i + 1, BannerStep(acc, Strip(lines[i])))

\* parse_banner:43-58  returns (location or '', score, turns)
ParseBanner(lines) ==
    LET acc == BannerLoop(lines, 1, BannerStart)
    IN  [location |-> acc.location, score |-> acc.score, turns |-> acc.turns]

\* lines the banner texts are made of
BannerLines == {
    <<>>,
    <<" ">>,
    <<" ", "Kitchen", " ">>,
    <<"Cellar">>,
    <<"Score:", " ", "10", " ", "Turns:", " ", "5">>,
    <<" ", "West of House", " ", "Score:", "0", " ", "Turns:", "0">>,
    <<"Score:", " ", "5">> }

RECURSIVE SeqsUpTo(_, _)
SeqsUpTo(S, n) ==
    IF n = 0 THEN {<<>>}
    ELSE LET shorter == SeqsUpTo(S, n - 1)
         IN  shorter \cup { Append(q, x) : q \in shorter, x \in S }

InitBanner ==
    /\ Idle("extract_banner")
    /\ text \in SeqsUpTo(BannerLines, MaxBannerLines)
    /\ given = NoGiven
    /\ parsed = NoParsed

\* parse_banner applied to the text
ExtractBanner ==
    /\ pc = "extract_banner"
    /\ parsed.op = "none"
    /\ parsed' = [op |-> "banner", r |-> ParseBanner(text)]
    /\ UNCHANGED << config, text, given, recvars, oracleOut, sent, pc, turn, histstate,
                    oraclevars, before, after, buffer, childAlive, pending,
                    sinks, records, events, endReason, histvars >>

NextBanner == ExtractBanner

SpecBanner == InitBanner /\ [][NextBanner]_vars

\* a stripped line is a status line
IsStatus(s) == \E p \in DOMAIN s : StatusAt(s, p)
NonBlankIdx == { i \in DOMAIN text : Strip(text[i]) # <<>> }
StatusIdx == { i \in DOMAIN text : IsStatus(Strip(text[i])) }
PlainIdx == NonBlankIdx \ StatusIdx
MinOf(S) == CHOOSE x \in S : \A y \in S : x <= y
MaxOf(S) == CHOOSE x \in S : \A y \in S : y <= x

\* C15 as stated: location is the first non-blank line that is not a status
\* line ('' when there is none); a status line is never the location.
C15_Original ==
    parsed.op = "banner" =>
        parsed.r.location =
            IF PlainIdx = {} THEN <<>> ELSE Strip(text[MinOf(PlainIdx)])

\* C15: location is the first non-blank line, stripped, whether or not it is
\* a status line, and '' when the text has no non-blank line.
C15_LocationFirstNonBlank ==
    parsed.op = "banner" =>
        parsed.r.location =
            IF NonBlankIdx = {} THEN <<>> ELSE Strip(text[MinOf(NonBlankIdx)])

C15_Witness ==
    /\ parsed.op = "banner"
    /\ Len(text) = 3
    /\ Strip(text[1]) = <<>>
    /\ IsStatus(Strip(text[2]))
    /\ PlainIdx = {3}
    /\ parsed.r.location = Strip(text[2])

\* C16 as stated: score and turns are those of the first line that matches
\* the pattern, and unset when no line matches.
C16_Original ==
    parsed.op = "banner" =>
        IF StatusIdx = {}
        THEN parsed.r.score = Unset /\ parsed.r.turns = Unset
        ELSE LET s == Strip(text[MinOf(StatusIdx)])
             IN  /\ parsed.r.score = Value(StatusScore(s, SearchStatus(s, 1)))
                 /\ parsed.r.turns = Value(StatusTurns(s, SearchStatus(s, 1)))

\* C16: score and turns are those of the last line that matches the pattern;
\* when no line matches they are unset, which is not the value 0.
C16_LastMatchWins ==
    parsed.op = "banner" =>
        /\ Unset # Value(0)
        /\ IF StatusIdx = {}
           THEN parsed.r.score = Unset /\ parsed.r.turns = Unset
           ELSE LET s == Strip(text[MaxOf(StatusIdx)])
                IN  /\ parsed.r.score = Value(StatusScore(s, SearchStatus(s, 1)))
                    /\ parsed.r.turns = Value(StatusTurns(s, SearchStatus(s, 1)))

C16_Witness ==
    /\ parsed.op = "banner"
    /\ Cardinality(StatusIdx) = 2
    /\ parsed.r.score = Value(0)
    /\ parsed.r.turns = Value(0)
    /\ \E i \in StatusIdx : StatusScore(Strip(text[i]), SearchStatus(Strip(text[i]), 1)) = 10

\* -------------------------------------------------------- parse_game_state
\* Atoms of a line: " " is a run of whitespace, "." a period, ":" a colon,
\* "," and ";" themselves, " and " the word "and" with a blank on each side;
\* "You are carrying" and "YOU ARE CARRYING" are the phrase in two letter
\* cases; every other atom is a run of other characters.
Phrase == "you are carrying"
PhraseAtoms == {"You are carrying", "YOU ARE CARRYING", "you are carrying"}

\* str.lower(), as far as the comparisons with the phrase can tell
Lower(a) == IF a \in PhraseAtoms THEN Phrase ELSE a

\* str.lstrip(): a leading " and " loses its leading blank
GLStrip(s) ==
    LET t == LStrip(s)
    IN  IF t # <<>> /\ Head(t) = " and " THEN <<"and", " ">> \o Tail(t) ELSE t

\* str.rstrip(): a trailing " and " loses its trailing blank
GRStrip(s) ==
    LET t == RStrip(s)
    IN  IF t # <<>> /\ t[Len(t)] = " and "
        THEN SubSeq(t, 1, Len(t) - 1) \o <<" ", "and">> ELSE t

GStrip(s) == GRStrip(GLStrip(s))

\* parse_game_state:109,113  str.rstrip('.')
RECURSIVE RStripDots(_)
RStripDots(s) ==
    IF s # <<>> /\ s[Len(s)] = "."
    THEN RStripDots(SubSeq(s, 1, Len(s) - 1)) ELSE s

\* parse_game_state:85,98  'Score:' in s or 'Turns:' in s
HasStatusWord(s) == \E i \in DOMAIN s : s[i] \in {"Score:", "Turns:"}

\* parse_game_state:87  s.startswith('[')
StartsBracket(s) == s # <<>> /\ s[1] = "[dbg]"

\* parse_game_state:101  low.startswith('you are carrying') or
\*                       'you are carrying:' in low
IsIntro(s) ==
    \/ s # <<>> /\ Lower(s[1]) = Phrase
    \/ \E i \in 1..(Len(s) - 1) : Lower(s[i]) = Phrase /\ s[i + 1] = ":"

\* parse_game_state:103-104  index of the first colon of the line, 0 if none
RECURSIVE FirstColon(_, _)
FirstColon(s, i) ==
    IF i > Len(s) THEN 0
    ELSE IF s[i] = ":" THEN i ELSE FirstColon(s, i + 1)

\* variant: the word "and" does not separate items
IsSep_NoAnd(a) == a \in {",", ";"}

\* parse_game_state:107  the separators of re.split(r',|;| and ')
IsSep(a) == a \in {",", ";", " and "}

\* parse_game_state:107  re.split: the parts between the separators
RECURSIVE SplitItems(_, _, _)
SplitItems(s, i, cur) ==
    IF i > Len(s) THEN << cur >>
    ELSE IF IsSep(s[i]) THEN << cur >> \o SplitItems(s, i + 1, <<>>)
    ELSE SplitItems(s, i + 1, Append(cur, s[i]))

\* parse_game_state:108  [p.strip().rstrip('.') for p in parts if p.strip()]
RECURSIVE CleanParts(_)
CleanParts(parts) ==
    IF parts = <<>> THEN <<>>
    ELSE IF GStrip(Head(parts)) = <<>> THEN CleanParts(Tail(parts))
    ELSE << RStripDots(GStrip(Head(parts))) >> \o CleanParts(Tail(parts))

\* parse_game_state:103-108  the items written on the introduction line
InlineItems(s) ==
    LET c == FirstColon(s, 1)
        rest == GStrip(SubSeq(s, c + 1, Len(s)))
    IN  IF c = 0 \/ rest = <<>> THEN <<>>
        ELSE CleanParts(SplitItems(rest, 1, <<>>))

\* parse_game_state:110-114  one item per following non-blank line
RECURSIVE FollowingItems(_, _)
FollowingItems(lines, k) ==
    IF k > Len(lines) \/ GStrip(lines[k]) = <<>> THEN <<>>
    ELSE << RStripDots(GStrip(lines[k])) >> \o FollowingItems(lines, k + 1)

\* parse_game_state:76-78  skip leading empties
RECURSIVE SkipEmpties(_, _)
SkipEmpties(lines, idx) ==
    IF idx <= Len(lines) /\ GStrip(lines[idx]) = <<>>
    THEN SkipEmpties(lines, idx + 1) ELSE idx

\* parse_game_state:81-92  index of the room title, 0 if there is none
RECURSIVE FindRoom(_, _)
FindRoom(lines, i) ==
    IF i > Len(lines) THEN 0
    ELSE LET s == GStrip(lines[i])
         IN  IF s = <<>> \/ HasStatusWord(s) \/ StartsBracket(s)
             THEN FindRoom(lines, i + 1) ELSE i

\* parse_game_state:95-115  description lines, then the inventory
RECURSIVE DescLoop(_, _, _)
DescLoop(lines, j, acc) ==
    IF j > Len(lines) THEN [description_lines |-> acc, inventory |-> <<>>]
    ELSE LET s == GRStrip(lines[j])
         IN  IF GStrip(s) = <<>> \/ HasStatusWord(s)
             THEN [description_lines |-> acc, inventory |-> <<>>]
             ELSE IF IsIntro(s)
             THEN [description_lines |-> acc,
                   inventory |-> InlineItems(s) \o FollowingItems(lines, j + 1)]
             ELSE DescLoop(lines, j + 1, Append(acc, s))

\* parse_game_state:117  ' '.join(...)
RECURSIVE JoinSp(_)
JoinSp(ls) ==
    IF ls = <<>> THEN <<>>
    ELSE IF Len(ls) = 1 THEN ls[1]
    ELSE ls[1] \o <<" ">> \o JoinSp(Tail(ls))

NoRoom == [set |-> FALSE, v |-> <<>>]

\* parse_game_state:61-118
ParseGameState(txt) ==
    IF txt = <<>>
    THEN [room |-> NoRoom, description |-> <<>>, inventory |-> <<>>]
    ELSE LET lines == [i \in 1..Len(txt) |-> GRStrip(txt[i])]
             idx0 == SkipEmpties(lines, 1)
             ri == FindRoom(lines, idx0)
             idx == IF ri = 0 THEN idx0 ELSE ri + 1
             d == DescLoop(lines, idx, <<>>)
         IN  [room |-> IF ri = 0 THEN NoRoom
                       ELSE [set |-> TRUE, v |-> GStrip(lines[ri])],
              description |-> GStrip(JoinSp(d.description_lines)),
              inventory |-> d.inventory]

\* The texts given to parse_game_state are written from their parts: a room
\* line, description lines, an optional introduction line with items after
\* its colon, item lines, and optionally a blank line and more text.
Spaces(n) == [i \in 1..n |-> " "]
Dots(n) == [i \in 1..n |-> "."]

\* a line: its text between optional blanks, with periods at its end
Ln(ind, core, dots, trail) ==
    [ind |-> ind, core |-> core, dots |-> dots, trail |-> trail]
RenderLn(l) == Spaces(l.ind) \o l.core \o Dots(l.dots) \o Spaces(l.trail)

RoomLines == { Ln(0, <<"Kitchen">>, 0, 0),
               Ln(1, <<"West", " ", "of", " ", "House">>, 0, 1) }

\* the last one holds the phrase but is no introduction line: the phrase is
\* not at the start of the line and no colon follows it
DescLines == { Ln(0, <<"You", " ", "see", " ", "a", " ", "door", ".">>, 0, 0),
               Ln(1, <<"It", " ", "is", " ", "dark">>, 0, 1),
               Ln(1, <<"you are carrying", " ", "much">>, 0, 0) }

ItemLines == { Ln(0, <<"sword">>, 0, 0),
               Ln(1, <<"A", " ", "brass", " ", "lantern">>, 1, 0),
               Ln(1, <<"leaflet">>, 2, 1) }

\* an item written after the colon, and the separator that follows it
Part(ind, core, dots, sep) ==
    [ind |-> ind, core |-> core, dots |-> dots, sep |-> sep]
InlineParts == { Part(1, <<"lamp">>, 0, <<",">>),
                 Part(0, <<"brass", " ", "key">>, 1, <<";", " ">>),
                 Part(1, <<"bandage">>, 0, <<" and ">>),
                 Part(0, <<"sand">>, 2, <<",", " and ">>) }

RECURSIVE RenderParts(_)
RenderParts(ps) ==
    IF ps = <<>> THEN <<>>
    ELSE Spaces(ps[1].ind) \o ps[1].core \o Dots(ps[1].dots)
         \o (IF Len(ps) > 1 THEN ps[1].sep ELSE <<>>) \o RenderParts(Tail(ps))

NoIntro == [present |-> FALSE, ind |-> 0, phrase |-> "", colon |-> FALSE,
            parts |-> <<>>, rest |-> <<>>]

\* the phrase at the start of the line, or after blanks and in capitals
IntroStarts == { [ind |-> 0, phrase |-> "You are carrying"],
                 [ind |-> 1, phrase |-> "YOU ARE CARRYING"] }

Intros ==
    { [present |-> TRUE, ind |-> st.ind, phrase |-> st.phrase, colon |-> TRUE,
       parts |-> ps, rest |-> <<>>] :
         st \in IntroStarts, ps \in SeqsUpTo(InlineParts, MaxInline) }
    \cup
    { [present |-> TRUE, ind |-> 0, phrase |-> ph, colon |-> FALSE,
       parts |-> <<>>, rest |-> r] :
         ph \in {"You are carrying", "YOU ARE CARRYING"},
         r \in {<<>>, <<" ", "a", " ", "lamp", ".">>} }

RenderIntro(n) ==
    Spaces(n.ind) \o << n.phrase >>
    \o (IF n.colon THEN <<":">> \o RenderParts(n.parts) ELSE n.rest)

TailLines == << <<>>, <<"More", " ", "text", ":", " ", "rope">> >>

GameStates ==
    { g \in [kind : {"state"}, room : RoomLines,
             desc : SeqsUpTo(DescLines, MaxDescLines),
             intro : Intros \cup {NoIntro},
             items : SeqsUpTo(ItemLines, MaxItemLines),
             tail : BOOLEAN] :
        g.intro.present \/ g.items = <<>> }

Render(g) ==
    << RenderLn(g.room) >>
    \o [i \in 1..Len(g.desc) |-> RenderLn(g.desc[i])]
    \o (IF g.intro.present THEN << RenderIntro(g.intro) >> ELSE <<>>)
    \o [i \in 1..Len(g.items) |-> RenderLn(g.items[i])]
    \o (IF g.tail THEN TailLines ELSE <<>>)

InitGameState ==
    /\ Idle("extract_state")
    /\ given \in GameStates
    /\ text = Render(given)
    /\ parsed = NoParsed

\* parse_game_state applied to the text
ExtractGameState ==
    /\ pc = "extract_state"
    /\ parsed.op = "none"
    /\ parsed' = [op |-> "state", r |-> ParseGameState(text)]
    /\ UNCHANGED << config, text, given, recvars, oracleOut, sent, pc, turn, histstate,
                    oraclevars, before, after, buffer, childAlive, pending,
                    sinks, records, events, endReason, histvars >>

NextGameState == ExtractGameState

SpecGameState == InitGameState /\ [][NextGameState]_vars

\* what the parts of the text say the result is
ExpectedDescription ==
    JoinSp([i \in 1..Len(given.desc) |->
               (IF i = 1 THEN <<>> ELSE Spaces(given.desc[i].ind))
               \o given.desc[i].core])
ExpectedInventory ==
    IF given.intro.present
    THEN [i \in 1..Len(given.intro.parts) |-> given.intro.parts[i].core]
         \o [i \in 1..Len(given.items) |-> given.items[i].core]
    ELSE <<>>

C18_CommandIsFirstLine ==
    \A i \in DOMAIN sent :
        /\ \E j \in DOMAIN oracleOut :
              /\ oracleOut[j].t = sent[i].t
              /\ \E k \in DOMAIN oracleOut[j].raw :
                    /\ Strip(oracleOut[j].raw[k]) # <<>>
                    /\ \A h \in 1..(k - 1) : Strip(oracleOut[j].raw[h]) = <<>>
                    /\ sent[i].cmd = Strip(oracleOut[j].raw[k])
        /\ \A r \in DOMAIN records :
              records[r].turn = sent[i].t => records[r].command = sent[i].cmd

C18_Witness ==
    \E i \in DOMAIN sent :
        \E j \in DOMAIN oracleOut :
            /\ oracleOut[j].t = sent[i].t
            /\ Strip(oracleOut[j].raw[1]) = <<>>
            /\ oracleOut[j].raw[2] # Strip(oracleOut[j].raw[2])
            /\ sent[i].cmd = <<"open door">>
            /\ \E r \in DOMAIN records :
                  records[r].turn = sent[i].t /\ records[r].phase = "before_send"
            /\ \E r \in PostIndexes : records[r].turn = sent[i].t

\* the place of an event within its turn
Rank(e) ==
    CASE e \in {"banner", "banner_timeout", "banner_eof"} -> 0
      [] e \in {"top", "top_raise"} -> 1
      [] e \in {"oracle", "oracle_fail"} -> 2
      [] e \in {"pre", "pre_write_fail"} -> 3
      [] e \in {"send", "send_fail"} -> 4
      [] e \in {"matched", "timeout", "eof"} -> 5
      [] e \in {"post", "post_write_fail"} -> 6
      [] e = "finished" -> 7

WaitEnds == {"matched", "timeout", "eof"}

\* C19: within a turn the oracle call, the pre-send record, the send, the
\* end of the boundary wait and the post-receive record come in this order,
\* each once at most; every event of a turn comes before every event of a
\* later turn; and the wait for a command has ended before the next command
\* is sent.
C19_EventsInOrder ==
    /\ \A i, j \in DOMAIN events :
          i < j =>
              /\ events[i].t <= events[j].t
              /\ events[i].t = events[j].t => Rank(events[i].e) < Rank(events[j].e)
    /\ \A i, j \in DOMAIN events :
          (i < j /\ events[i].e = "send" /\ events[j].e = "send") =>
              \E k \in (i + 1)..(j - 1) :
                  events[k].e \in WaitEnds /\ events[k].t = events[i].t

FullTurn(t) ==
    \E i \in DOMAIN events :
        /\ i + 4 <= Len(events)
        /\ events[i] = Ev(t, "oracle")
        /\ events[i + 1] = Ev(t, "pre")
        /\ events[i + 2] = Ev(t, "send")
        /\ events[i + 3] = Ev(t, "matched")
        /\ events[i + 4] = Ev(t, "post")

C19_Witness == FullTurn(1) /\ FullTurn(2) /\ pc = "done"

\* a turn is started once its loop iteration has begun
Started(t) == Happened(t, "top") \/ Happened(t, "top_raise")
OracleCalls(t) == { j \in DOMAIN oracleOut : oracleOut[j].t = t }

\* C20: in mock mode the oracle is consulted exactly once in every started
\* turn, and the command sent on turn t is the first line of canned response
\* (t - 1) mod 5, whatever the child printed and whether or not an earlier
\* boundary wait timed out (stated for the runs whose startup wait found the
\* marker).
C20_MockOncePerTurn ==
    (use_mock /\ Happened(0, "banner")) =>
        \A t \in 1..MaxTurns :
            /\ (Started(t) /\ (turn > t \/ pc \in {"cleanup", "done", "crashed"})) =>
                  Cardinality(OracleCalls(t)) = 1
            /\ \A i \in DOMAIN sent :
                  sent[i].t = t =>
                      sent[i].cmd = MockResponses[((t - 1) % 5) + 1][1]

\* ------------------------------------------- the records of a turn in full
\* The turn loop with its texts written out: a text is a sequence of lines,
\* a line a sequence of atoms as for parse_banner and parse_game_state.
\* SIMPLE_TEXT and SIMPLE_LOG are off, so the records are the full ones.

\* what the child has printed in front of the marker when expect finds it;
\* the last line is the part of the marker's line in front of the marker
BeforeTexts == {
    << <<"West of House">>,
       <<"You", " ", "see", " ", "a", " ", "mailbox", ".">>,
       <<>>,
       <<>> >>,
    << <<" ", "0", " ", "Turns:", " ", "1">>,
       <<"Kitchen">>,
       <<"It", " ", "is", " ", "dark", ".">>,
       <<"You are carrying", ":">>,
       <<" ", "lamp", ".", " ">>,
       <<>> >>,
    << <<>>,
       <<" ", "Cellar", " ">>,
       <<"A", " ", "troll", ".">>,
       <<" ">> >>,
    << <<>> >> }

MarkerAfter == [k |-> "str", v |-> << Marker >>]

\* main:203, main:334  (game.before or '') + (game.after or '') when the
\* marker was found: the marker ends the last line
TextConcat(b) ==
    SubSeq(b, 1, Len(b) - 1) \o << b[Len(b)] \o << Marker >> >>

RECURSIVE DropBlankHead(_)
DropBlankHead(t) ==
    IF t # <<>> /\ Strip(Head(t)) = <<>> THEN DropBlankHead(Tail(t)) ELSE t

RECURSIVE DropBlankTail(_)
DropBlankTail(t) ==
    IF t # <<>> /\ Strip(t[Len(t)]) = <<>>
    THEN DropBlankTail(SubSeq(t, 1, Len(t) - 1)) ELSE t

\* main:236  str.strip() of a text of several lines
TextStrip(t) ==
    LET a == DropBlankTail(DropBlankHead(t))
    IN  IF a = <<>> THEN <<>>
        ELSE IF Len(a) = 1 THEN << Strip(a[1]) >>
        ELSE << LStrip(a[1]) >> \o SubSeq(a, 2, Len(a) - 1) \o << RStrip(a[Len(a)]) >>

\* main:244, 297  '\n'.join(chunks)
RECURSIVE JoinLines(_)
JoinLines(chunks) ==
    IF chunks = <<>> THEN <<>> ELSE Head(chunks) \o JoinLines(Tail(chunks))

\* main:301-315  pre_record
PreFull(t, cmd, loc, sc, tu, state) ==
    [turn |-> t, phase |-> "before_send", command |-> cmd, output |-> <<>>,
     location |-> loc, score |-> sc, turns |-> tu,
     room |-> state.room, room_description |-> state.description,
     inventory |-> state.inventory]

\* variant: location, score and turns are extracted again from the output
PostFull_Reextract(t, cmd, o, loc, sc, tu) ==
    [turn |-> t, phase |-> "after_recv", command |-> cmd, output |-> o,
     location |-> ParseBanner(o).location, score |-> ParseBanner(o).score,
     turns |-> ParseBanner(o).turns,
     room |-> ParseGameState(o).room,
     room_description |-> ParseGameState(o).description,
     inventory |-> ParseGameState(o).inventory]

\* main:362, 381-393  post_record
PostFull(t, cmd, o, loc, sc, tu) ==
    [turn |-> t, phase |-> "after_recv", command |-> cmd, output |-> o,
     location |-> loc, score |-> sc, turns |-> tu,
     room |-> ParseGameState(o).room,
     room_description |-> ParseGameState(o).description,
     inventory |-> ParseGameState(o).inventory]

InitRecord ==
    /\ Idle("banner")
    /\ text = <<>>
    /\ given = NoGiven
    /\ parsed = NoParsed

\* main:201-203  the startup wait finds the marker
RecStartup ==
    /\ pc = "banner"
    /\ \E b \in BeforeTexts : before' = b
    /\ after' = MarkerAfter
    /\ events' = Append(events, Ev(0, "banner"))
    /\ pc' = "top"
    /\ turn' = 1
    /\ UNCHANGED << config, extractvars, oracleOut, sent, histstate, oraclevars,
                    buffer, childAlive, pending, sinks, records, endReason,
                    histvars >>

\* main:235  after a TIMEOUT game.after is the exception class
RecTopRaise ==
    /\ pc = "top"
    /\ ConcatRaises(after)
    /\ pc' = "crashed"
    /\ endReason' = "Uncaught"
    /\ events' = Append(events, Ev(turn, "top_raise"))
    /\ UNCHANGED << config, extractvars, oracleOut, sent, turn, histstate,
                    oraclevars, before, after, buffer, childAlive, pending,
                    sinks, records, histvars >>

\* main:235-244  the latest output goes into the history and the banner
\* values are extracted from its last four chunks
RecTop ==
    /\ pc = "top"
    /\ ~ConcatRaises(after)
    /\ LET recent == TextStrip(TextConcat(before))
       IN  /\ history' = IF recent # <<>> THEN HistoryAppend(history, recent) ELSE history
           /\ appended' = IF recent # <<>> THEN Append(appended, recent) ELSE appended
    /\ bannerWin' = Window(history', BannerWindow)
    /\ location' = ParseBanner(JoinLines(bannerWin')).location
    /\ score' = ParseBanner(JoinLines(bannerWin')).score
    /\ turns' = ParseBanner(JoinLines(bannerWin')).turns
    /\ pc' = "oracle"
    /\ events' = Append(events, Ev(turn, "top"))
    /\ UNCHANGED << config, text, given, parsed, game_output, oracleOut, sent,
                    turn, recent_context, oraclevars, before, after, buffer,
                    childAlive, pending, sinks, records, endReason, histvars >>

\* main:258-325  the mock oracle gives the command, the pre-send record is
\* written (a failing write is swallowed) and the command is sent
RecPre ==
    /\ pc = "oracle"
    /\ response' = MockResponse(mock_i)
    /\ mock_i' = mock_i + 1
    /\ cmd_line' = FirstCommand(response')
    /\ recent_context' = Window(history, ContextWindow)
    /\ \E written \in BOOLEAN :
          /\ records' =
                IF written
                THEN Append(records,
                            PreFull(turn, cmd_line', location, score, turns,
                                    ParseGameState(JoinLines(recent_context'))))
                ELSE records
          /\ events' = events \o << Ev(turn, "oracle") >>
                              \o (IF written THEN << Ev(turn, "pre") >>
                                             ELSE << Ev(turn, "pre_write_fail") >>)
                              \o << Ev(turn, "send") >>
    /\ oracleOut' = Append(oracleOut, [t |-> turn, raw |-> response'])
    /\ sent' = Append(sent, [t |-> turn, cmd |-> cmd_line'])
    /\ pc' = "wait"
    /\ UNCHANGED << config, extractvars, turn, history, bannerWin, appended,
                    before, after, buffer, childAlive, pending, sinks,
                    endReason, histvars >>

\* main:333-395  the marker is found: out = before + after, the full record
\* is written (a failing write is swallowed), next iteration
RecMatch ==
    /\ pc = "wait"
    /\ ~simple_text /\ ~simple_log
    /\ \E b \in BeforeTexts : before' = b
    /\ after' = MarkerAfter
    /\ game_output' = TextConcat(before')
    /\ \E written \in BOOLEAN :
          /\ records' =
                IF written
                THEN Append(records,
                            PostFull(turn, cmd_line, game_output', location, score, turns))
                ELSE records
          /\ events' = events \o << Ev(turn, "matched") >>
                              \o (IF written THEN << Ev(turn, "post") >>
                                             ELSE << Ev(turn, "post_write_fail") >>)
    /\ LoopAdvance
    /\ UNCHANGED << config, text, given, parsed, location, score, turns,
                    oracleOut, sent, histstate, oraclevars, buffer, childAlive,
                    pending, sinks, histvars >>

\* main:333, 409-412  timeout: no record, game.after is the TIMEOUT class
RecTimeout ==
    /\ pc = "wait"
    /\ after' = TimeoutAfter
    /\ events' = Append(events, Ev(turn, "timeout"))
    /\ LoopAdvance
    /\ UNCHANGED << config, extractvars, oracleOut, sent, histstate, oraclevars,
                    before, buffer, childAlive, pending, sinks, records,
                    histvars >>

NextRecord ==
    \/ RecStartup
    \/ RecTopRaise
    \/ RecTop
    \/ RecPre
    \/ RecMatch
    \/ RecTimeout
    \/ Cleanup

SpecRecord == InitRecord /\ [][NextRecord]_vars

FullPost == { i \in DOMAIN records : records[i].phase = "after_recv" }
PreOf(i) == { j \in DOMAIN records : /\ records[j].phase = "before_send"
                                     /\ records[j].turn = records[i].turn }

\* C21: the location, score and turns of a full post-receive record are
\* those of the pre-send record of the same turn, which was written before
\* it, and its room, room_description and inventory are those extracted
\* from the output received for the command.
C21_PostKeepsBannerValues ==
    \A i \in FullPost :
        /\ \A j \in PreOf(i) :
              /\ j < i
              /\ records[i].location = records[j].location
              /\ records[i].score = records[j].score
              /\ records[i].turns = records[j].turns
        /\ records[i].room = ParseGameState(records[i].output).room
        /\ records[i].room_description = ParseGameState(records[i].output).description
        /\ records[i].inventory = ParseGameState(records[i].output).inventory

C21_Witness ==
    \E i \in FullPost :
        \E j \in PreOf(i) :
            /\ records[i].location = records[j].location
            /\ records[i].location # ParseBanner(records[i].output).location
            /\ records[i].room # records[j].room
            /\ records[i].inventory # records[j].inventory

====
